---- MODULE Spec2Model ----
(***************************************************************************)
(* Model of catalyst/exchange/ccxt/ccxt_exchange.py: the CCXT exchange     *)
(* adapter (timeframe translation, symbol codec, two-catalog asset         *)
(* resolution, asset-table construction and market-data normalisation).    *)
(*                                                                         *)
(* Python strings are sequences of one-character strings.  A Python value  *)
(* that may be None is a sequence of length at most one (<<>> is None).    *)
(***************************************************************************)
EXTENDS Integers, Sequences, FiniteSets, TLC

VARIABLES markets, remote, local, assets, phase, call, result

vars == <<markets, remote, local, assets, phase, call, result>>

(***************************************************************************)
(* Bounds of the model.                                                    *)
(***************************************************************************)
MaxFreqLen == 3
MaxSymLen == 4
MaxCatalog == 2
MaxMarkets == 2
MaxDepth == 3
MaxRows == 1

None == <<>>
Some(x) == <<x>>

(***************************************************************************)
(* str.lower / str.upper, character by character.                          *)
(***************************************************************************)
LowerLetters == <<"a", "b", "c", "d", "e", "f", "h", "m", "t", "x">>
UpperLetters == <<"A", "B", "C", "D", "E", "F", "H", "M", "T", "X">>
DigitChars == <<"0", "1", "2", "3", "4", "5", "6", "7", "8", "9">>

IndexIn(seq, c) == CHOOSE i \in 1..Len(seq) : seq[i] = c
IsIn(seq, c) == \E i \in 1..Len(seq) : seq[i] = c

LowerChar(c) == IF IsIn(UpperLetters, c) THEN LowerLetters[IndexIn(UpperLetters, c)] ELSE c
UpperChar(c) == IF IsIn(LowerLetters, c) THEN UpperLetters[IndexIn(LowerLetters, c)] ELSE c

Lower(s) == [i \in 1..Len(s) |-> LowerChar(s[i])]
Upper(s) == [i \in 1..Len(s) |-> UpperChar(s[i])]

\* All strings over the characters of chars with length 0..n.
Strings(chars, n) == UNION {[1..k -> chars] : k \in 0..n}

\* str.split(sep) for a one-character separator: the list of parts.
RECURSIVE Split(_, _)
Split(s, sep) ==
    IF \A i \in 1..Len(s) : s[i] # sep
    THEN <<s>>
    ELSE LET p == CHOOSE i \in 1..Len(s) : s[i] = sep /\ \A j \in 1..(i - 1) : s[j] # sep
         IN  <<SubSeq(s, 1, p - 1)>> \o Split(SubSeq(s, p + 1, Len(s)), sep)

\* Outcome of a call: a returned value or a raised exception.
Return(v) == [kind |-> "return", err |-> "", val |-> v]
Raise(e) == [kind |-> "raise", err |-> e, val |-> None]

(***************************************************************************)
(* Symbol codec: get_symbol and get_catalyst_symbol.                       *)
(***************************************************************************)
get_symbol(asset) ==
    LET parts == Split(asset.symbol, "_")
    IN  IF Len(parts) < 2 THEN Raise("IndexError")
        ELSE Return(Upper(parts[1]) \o <<"/">> \o Upper(parts[2]))

\* get_catalyst_symbol without the lowercasing.
get_catalyst_symbol_keeps_case(market) ==
    LET parts == Split(market.symbol, "/")
    IN  IF Len(parts) < 2 THEN Raise("IndexError")
        ELSE Return(parts[1] \o <<"_">> \o parts[2])

get_catalyst_symbol(market) ==
    LET parts == Split(market.symbol, "/")
    IN  IF Len(parts) < 2 THEN Raise("IndexError")
        ELSE Return(Lower(parts[1]) \o <<"_">> \o Lower(parts[2]))

(***************************************************************************)
(* Timeframe translation: get_timeframe.                                   *)
(***************************************************************************)
IsDigit(c) == IsIn(DigitChars, c)

\* The alternation (m|M|d|D|h|H|T) under re.I.
IsUnitLetter(c) == LowerChar(c) \in {"m", "d", "h", "t"}

\* re.match(r'([0-9].*)?(m|M|d|D|h|H|T)', freq, re.M | re.I): the groups of
\* the match, or None.  Group 1 is greedy, so the unit letter is the last
\* one of the string; without a leading digit group 1 does not take part
\* and the unit letter is the first character.  Nothing is required of the
\* characters after the unit letter.
freq_match(freq) ==
    IF Len(freq) >= 2 /\ IsDigit(freq[1]) /\ \E j \in 2..Len(freq) : IsUnitLetter(freq[j])
    THEN LET j == CHOOSE k \in 2..Len(freq) :
                      IsUnitLetter(freq[k]) /\ \A l \in (k + 1)..Len(freq) : ~IsUnitLetter(freq[l])
         IN  Some([group1 |-> Some(SubSeq(freq, 1, j - 1)), group2 |-> freq[j]])
    ELSE IF Len(freq) >= 1 /\ IsUnitLetter(freq[1])
         THEN Some([group1 |-> None, group2 |-> freq[1]])
         ELSE None

\* int(str) on a string of the model's characters: defined on digit strings.
IsInt(s) == Len(s) >= 1 /\ \A i \in 1..Len(s) : IsDigit(s[i])

RECURSIVE ParseInt(_)
ParseInt(s) ==
    IF Len(s) = 0 THEN 0
    ELSE 10 * ParseInt(SubSeq(s, 1, Len(s) - 1)) + (IndexIn(DigitChars, s[Len(s)]) - 1)

\* '{}'.format(n) for a natural number n.
RECURSIVE FormatInt(_)
FormatInt(n) ==
    IF n < 10 THEN <<DigitChars[n + 1]>>
    ELSE FormatInt(n \div 10) \o <<DigitChars[(n % 10) + 1]>>

\* The branch of the if/elif chain that binds timeframe, "" when none does.
timeframe_unit(unit) ==
    IF LowerChar(unit) = "d" THEN "d"
    ELSE IF LowerChar(unit) = "m" \/ unit = "T" THEN "m"
    ELSE IF LowerChar(unit) = "h" \/ unit = "T" THEN "h"
    ELSE ""

get_timeframe(freq) ==
    LET m == freq_match(freq)
    IN  IF m = None THEN Raise("InvalidHistoryFrequencyError")
        ELSE LET g1 == m[1].group1
                 unit == m[1].group2
             IN  IF g1 # None /\ ~IsInt(g1[1]) THEN Raise("ValueError")
                 ELSE LET candle_size == IF g1 # None THEN ParseInt(g1[1]) ELSE 1
                          u == timeframe_unit(unit)
                      IN  IF u = "" THEN Raise("UnboundLocalError")
                          ELSE Return(FormatInt(candle_size) \o <<u>>)

(***************************************************************************)
(* Asset resolution: _fetch_symbol_map and _fetch_asset.                   *)
(*                                                                         *)
(* A catalog is what fetch_symbol_map(is_local) yields: avail = FALSE      *)
(* when it raises ExchangeSymbolsNotFound, otherwise the items of the      *)
(* mapping in iteration order.                                             *)
(***************************************************************************)
CatalogKeys == {<<"a", "b">>, <<"A", "B">>, <<"c", "d">>}

EntryFull ==
    [symbol |-> <<"a", "_", "b">>, start_date |-> Some("2017-01-01"), end_date |-> Some("2018-01-01"),
     leverage |-> Some(2), asset_name |-> Some("Alpha"), end_daily |-> Some("N/A"),
     end_minute |-> Some("2017-12-31")]

EntryMin ==
    [symbol |-> <<"c", "_", "d">>, start_date |-> None, end_date |-> None,
     leverage |-> None, asset_name |-> None, end_daily |-> None, end_minute |-> None]

Entries == {EntryFull, EntryMin}

Items == [key : CatalogKeys, value : Entries]

\* A mapping has pairwise distinct keys.
DistinctKeys(items) == \A i, j \in 1..Len(items) : i # j => items[i].key # items[j].key

Catalogs ==
    {[avail |-> FALSE, items |-> <<>>]} \cup
    {[avail |-> TRUE, items |-> it] :
        it \in {x \in UNION {[1..k -> Items] : k \in 0..MaxCatalog} : DistinctKeys(x)}}

_fetch_symbol_map(is_local) ==
    LET catalog == IF is_local THEN local ELSE remote
    IN  IF catalog.avail THEN Some(catalog.items) ELSE None

\* The lookup without lowercasing the catalog's keys.
assets_lower_exact(symbol_map, key) ==
    LET hits == {i \in 1..Len(symbol_map) : symbol_map[i].key = key}
    IN  IF hits = {} THEN None
        ELSE Some(symbol_map[CHOOSE i \in hits : \A j \in hits : j <= i].value)

\* {k.lower(): v for k, v in symbol_map.items()} read at key: a later item
\* overwrites an earlier one with the same lowercased key.
assets_lower(symbol_map, key) ==
    LET hits == {i \in 1..Len(symbol_map) : Lower(symbol_map[i].key) = key}
    IN  IF hits = {} THEN None
        ELSE Some(symbol_map[CHOOSE i \in hits : \A j \in hits : j <= i].value)

\* _fetch_asset(market_id, is_local): the pair (asset, is_local) it returns,
\* with the catalogs it consulted, in order, in lookups.
RECURSIVE _fetch_asset_from(_, _, _)
_fetch_asset_from(market_id, is_local, lookups) ==
    LET symbol_map == _fetch_symbol_map(is_local)
        seen == Append(lookups, is_local)
    IN  IF symbol_map # None
        THEN LET asset == assets_lower(symbol_map[1], Lower(market_id))
             IN  IF asset # None THEN [asset |-> asset, is_local |-> is_local, lookups |-> seen]
                 ELSE IF ~is_local THEN _fetch_asset_from(market_id, TRUE, seen)
                 ELSE [asset |-> None, is_local |-> is_local, lookups |-> seen]
        ELSE IF ~is_local THEN _fetch_asset_from(market_id, TRUE, seen)
        ELSE [asset |-> None, is_local |-> is_local, lookups |-> seen]

\* A resolution that consults the local catalog before the remote one.
_fetch_asset_local_first(market_id, is_local) ==
    LET first == _fetch_asset_from(market_id, TRUE, <<>>)
    IN  IF first.asset # None THEN first
        ELSE [asset |-> IF remote.avail THEN assets_lower(remote.items, Lower(market_id)) ELSE None,
              is_local |-> FALSE, lookups |-> <<TRUE, FALSE>>]

_fetch_asset(market_id, is_local) == _fetch_asset_from(market_id, is_local, <<>>)

(***************************************************************************)
(* Asset-table construction: load_assets.                                  *)
(***************************************************************************)
ExchangeName == "bitfinex"

\* pd.to_datetime(x, utc=True)
to_datetime(x) == [utc |-> x]

OptDate(field) == IF field # None THEN Some(to_datetime(field[1])) ELSE None
OptDateNA(field) == IF field # None /\ field[1] # "N/A" THEN Some(to_datetime(field[1])) ELSE None

\* data_source = 'local' if is_local else 'catalyst'
data_source_swapped(is_local) == IF is_local THEN "catalyst" ELSE "local"

data_source_of(is_local) == IF is_local THEN "local" ELSE "catalyst"

\* The body of the loop of load_assets for one market: the TradingPair it
\* stores, or the exception it raises.
trading_pair_of(market) ==
    LET found == _fetch_asset(market.id, FALSE)
        data_source == data_source_of(found.is_local)
        base == [exchange |-> ExchangeName, data_source |-> data_source, exchange_symbol |-> market.id]
    IN  IF found.asset # None
        THEN LET asset == found.asset[1]
             IN  Return([exchange |-> base.exchange, data_source |-> base.data_source,
                         exchange_symbol |-> base.exchange_symbol,
                         symbol |-> asset.symbol,
                         start_date |-> OptDate(asset.start_date),
                         end_date |-> OptDate(asset.end_date),
                         leverage |-> IF asset.leverage # None THEN asset.leverage ELSE Some(1),
                         asset_name |-> asset.asset_name,
                         end_daily |-> OptDateNA(asset.end_daily),
                         end_minute |-> OptDateNA(asset.end_minute)])
        ELSE LET sym == get_catalyst_symbol(market)
             IN  IF sym.kind = "raise" THEN Raise(sym.err)
                 ELSE Return([exchange |-> base.exchange, data_source |-> base.data_source,
                              exchange_symbol |-> base.exchange_symbol,
                              symbol |-> sym.val,
                              start_date |-> None, end_date |-> None, leverage |-> None,
                              asset_name |-> None, end_daily |-> None, end_minute |-> None])

\* self.assets[market['id']] = trading_pair
Put(table, key, value) == [k \in (DOMAIN table) \cup {key} |-> IF k = key THEN value ELSE table[k]]

EmptyTable == [k \in {} |-> None]

\* load_assets over markets[i..]: the table reached and the exception that
\* ended the loop ("" when it ran to its end).
RECURSIVE load_assets_from(_, _, _)
load_assets_from(mkts, i, table) ==
    IF i > Len(mkts) THEN [assets |-> table, err |-> ""]
    ELSE LET tp == trading_pair_of(mkts[i])
         IN  IF tp.kind = "raise" THEN [assets |-> table, err |-> tp.err]
             ELSE load_assets_from(mkts, i + 1, Put(table, mkts[i].id, tp.val))

load_assets(mkts) == load_assets_from(mkts, 1, EmptyTable)

(***************************************************************************)
(* The adapter: construction.                                              *)
(***************************************************************************)
MarketPool ==
    {[id |-> <<"A", "B">>, symbol |-> <<"A", "/", "B">>],
     [id |-> <<"c", "d">>, symbol |-> <<"C", "/", "D">>],
     [id |-> <<"e", "f">>, symbol |-> <<"E", "/", "F">>],
     [id |-> <<"x">>, symbol |-> <<"X">>]}

MarketLists == UNION {[1..k -> MarketPool] : k \in 0..MaxMarkets}

NoCall == [op |-> "none"]

\* The state in which __init__ reaches self.load_assets(): the exchange's
\* market listing and the two catalogs are whatever the collaborators hold.
Init ==
    /\ markets \in MarketLists
    /\ remote \in Catalogs
    /\ local \in Catalogs
    /\ assets = EmptyTable
    /\ phase = "new"
    /\ call = NoCall
    /\ result = Return(None)

\* __init__ from self.assets = dict() on: an exception of load_assets leaves
\* the constructor, and no adapter exists.
Construct ==
    /\ phase = "new"
    /\ LET r == load_assets(markets)
       IN  /\ assets' = r.assets
           /\ phase' = IF r.err = "" THEN "ready" ELSE "failed"
           /\ call' = [op |-> "__init__"]
           /\ result' = IF r.err = "" THEN Return(None) ELSE Raise(r.err)
    /\ UNCHANGED <<markets, remote, local>>

(***************************************************************************)
(* Market-data normalisation: get_candles, tickers, get_orderbook.         *)
(***************************************************************************)
\* from_ms_timestamp(ms) and pd.to_datetime(ms, unit='ms', utc=True)
from_ms_timestamp(ms) == [utc_ms |-> ms]

Range(f) == {f[x] : x \in DOMAIN f}

\* Lists of at most n elements of S.
Lists(S, n) == UNION {[1..k -> S] : k \in 0..n}

\* Exchange.get_symbols(assets): get_symbol of each asset, in order.
RECURSIVE get_symbols(_)
get_symbols(as) ==
    IF Len(as) = 0 THEN Return(<<>>)
    ELSE LET head == get_symbol(as[1])
             rest == get_symbols(Tail(as))
         IN  IF head.kind = "raise" THEN head
             ELSE IF rest.kind = "raise" THEN rest
             ELSE Return(<<head.val>> \o rest.val)

candle_of(ohlcv) ==
    [last_traded |-> from_ms_timestamp(ohlcv[1]), open |-> ohlcv[2], high |-> ohlcv[3],
     low |-> ohlcv[4], close |-> ohlcv[5], volume |-> ohlcv[6]]

\* get_candles(freq, assets, bar_count, start_dt): ohlcvs is what fetch_ohlcv
\* answers.  start_dt is in milliseconds since the epoch, None when omitted.
get_candles(freq, as, start_dt, ohlcvs) ==
    LET symbols == get_symbols(as)
        timeframe == get_timeframe(freq)
    IN  IF symbols.kind = "raise" THEN symbols
        ELSE IF timeframe.kind = "raise" THEN timeframe
        ELSE IF start_dt = None THEN Raise("TypeError")
        ELSE IF Len(symbols.val) = 0 THEN Raise("IndexError")
        ELSE Return([i \in 1..Len(ohlcvs) |-> candle_of(ohlcvs[i])])

\* The ticker stored for one asset: last_traded and volume are set, every
\* other field of the exchange's ticker is kept.
ticker_of(raw) ==
    [timestamp |-> raw.timestamp, baseVolume |-> raw.baseVolume, last |-> raw.last,
     last_traded |-> from_ms_timestamp(raw.timestamp),
     volume |-> IF raw.baseVolume # None THEN raw.baseVolume[1] ELSE 0]

\* tickers(assets): raws[i] is what fetch_ticker answers for assets[i].
RECURSIVE tickers_from(_, _, _, _)
tickers_from(as, raws, i, acc) ==
    IF i > Len(as) THEN Return(acc)
    ELSE LET ccxt_symbol == get_symbol(as[i])
         IN  IF ccxt_symbol.kind = "raise" THEN ccxt_symbol
             ELSE tickers_from(as, raws, i + 1, Put(acc, as[i], ticker_of(raws[i])))

tickers(as, raws) == tickers_from(as, raws, 1, EmptyTable)

\* float(x) of a number of the exchange's answer.
Num(type, value) == [type |-> type, value |-> value]
float(x) == Num("float", x.value)

order_entry(entry) == [rate |-> float(entry[1]), quantity |-> float(entry[2])]

\* The loop over order_types from position index (0-based) on: the sides
\* written so far are in acc (side name -> list); a side the exchange's
\* snapshot does not have raises KeyError.
RECURSIVE orderbook_sides(_, _, _, _, _)
orderbook_sides(order_types, index, limit, order_book, acc) ==
    IF index >= Len(order_types) THEN Return(acc)
    ELSE IF limit # None /\ index > limit[1] - 1 THEN Return(acc)
    ELSE LET order_type == order_types[index + 1]
         IN  IF order_type \notin {"bids", "asks"} THEN Raise("KeyError")
             ELSE LET raw == order_book[order_type]
                      side == [i \in 1..Len(raw) |-> order_entry(raw[i])]
                  IN  orderbook_sides(order_types, index + 1, limit, order_book,
                                      Put(acc, order_type, side))

\* get_orderbook(asset, order_type, limit): order_book is what
\* fetch_order_book answers; the result is last_traded and the sides.
get_orderbook(asset, order_type, limit, order_book) ==
    LET ccxt_symbol == get_symbol(asset)
        order_types == IF order_type = "all" THEN <<"bids", "asks">> ELSE <<order_type>>
        sides == orderbook_sides(order_types, 0, limit, order_book, EmptyTable)
    IN  IF ccxt_symbol.kind = "raise" THEN ccxt_symbol
        ELSE IF sides.kind = "raise" THEN sides
        ELSE Return([last_traded |-> from_ms_timestamp(order_book.timestamp), sides |-> sides.val])

(***************************************************************************)
(* Inputs of the queries.                                                  *)
(***************************************************************************)
FreqSamples == {<<"5", "m">>, <<"H">>, <<"t">>, <<"x", "y", "z">>}

OhlcvRows == {<<1000, 10, 12, 9, 11, 100>>, <<2000, 11, 11, 8, 9, 50>>}

RawTickers ==
    {[timestamp |-> 1000, baseVolume |-> Some(7), last |-> 11],
     [timestamp |-> 2000, baseVolume |-> None, last |-> 9]}

RawEntries == {<<Num("int", 100), Num("int", 1)>>, <<Num("float", 99), Num("str", 2)>>}

\* The snapshots fetch_order_book may answer, with sides of at most n entries.
OrderBooks(n) == [timestamp : {1000}, bids : Lists(RawEntries, n), asks : Lists(RawEntries, n)]

OrderTypes == {"all", "bids", "asks", "trades"}

\* limit: None or a depth of 0..n.
Limits(n) == {None} \cup {Some(l) : l \in 0..n}

\* The TradingPairs a caller holds: those of the asset table.
Held == Range(assets)

CandleCalls ==
    {[op |-> "get_candles", freq |-> freq, assets |-> as, start_dt |-> start_dt, ohlcvs |-> ohlcvs] :
        freq \in FreqSamples, as \in Lists(Held, MaxRows), start_dt \in {None, Some(1500)},
        ohlcvs \in Lists(OhlcvRows, MaxRows)}

TickerCalls ==
    UNION {{[op |-> "tickers", assets |-> as, raws |-> raws] : raws \in [1..Len(as) -> RawTickers]} :
              as \in Lists(Held, MaxRows)}

OrderbookCalls(table, n) ==
    {[op |-> "get_orderbook", asset |-> asset, order_type |-> order_type, limit |-> limit,
      order_book |-> order_book] :
        asset \in Range(table), order_type \in OrderTypes, limit \in Limits(n),
        order_book \in OrderBooks(n)}

Pending == [kind |-> "pending", err |-> "", val |-> None]

(***************************************************************************)
(* The queries on a constructed adapter.  A caller's invocation puts the   *)
(* arguments, and what the exchange will answer, in call; the method then  *)
(* runs as one step.                                                       *)
(***************************************************************************)
Invoke ==
    /\ phase = "ready"
    /\ result # Pending
    /\ call' \in CandleCalls \cup TickerCalls \cup OrderbookCalls(assets, MaxRows)
    /\ result' = Pending
    /\ UNCHANGED <<markets, remote, local, assets, phase>>

GetCandles ==
    /\ phase = "ready"
    /\ call.op = "get_candles"
    /\ result = Pending
    /\ result' = get_candles(call.freq, call.assets, call.start_dt, call.ohlcvs)
    /\ UNCHANGED <<markets, remote, local, assets, phase, call>>

\* tickers that also stamps the assets it was given in self.assets.
TickersStamping ==
    /\ phase = "ready"
    /\ call.op = "tickers"
    /\ result = Pending
    /\ result' = tickers(call.assets, call.raws)
    /\ assets' = [k \in DOMAIN assets |->
                    IF \E i \in 1..Len(call.assets) : call.assets[i] = assets[k]
                    THEN [assets[k] EXCEPT !.end_minute = Some(to_datetime("now"))]
                    ELSE assets[k]]
    /\ UNCHANGED <<markets, remote, local, phase, call>>

Tickers ==
    /\ phase = "ready"
    /\ call.op = "tickers"
    /\ result = Pending
    /\ result' = tickers(call.assets, call.raws)
    /\ UNCHANGED <<markets, remote, local, assets, phase, call>>

GetOrderbook ==
    /\ phase = "ready"
    /\ call.op = "get_orderbook"
    /\ result = Pending
    /\ result' = get_orderbook(call.asset, call.order_type, call.limit, call.order_book)
    /\ UNCHANGED <<markets, remote, local, assets, phase, call>>

(***************************************************************************)
(* Calls of the other methods, on their own.                               *)
(***************************************************************************)
FreqChars == {"0", "1", "5", "m", "M", "T", "t", "h", "H", "d", "D", "x"}

GetTimeframe ==
    /\ call.op = "get_timeframe"
    /\ result = Pending
    /\ result' = get_timeframe(call.freq)
    /\ UNCHANGED <<markets, remote, local, assets, phase, call>>

SymChars == {"a", "b", "A", "_", "/"}

GetSymbol ==
    /\ call.op = "get_symbol"
    /\ result = Pending
    /\ result' = get_symbol([symbol |-> call.symbol])
    /\ UNCHANGED <<markets, remote, local, assets, phase, call>>

\* get_catalyst_symbol of the market whose symbol get_symbol just returned.
GetCatalystSymbol ==
    /\ call.op = "get_symbol"
    /\ result.kind = "return"
    /\ call' = [op |-> "get_catalyst_symbol", symbol |-> result.val, internal |-> call.symbol]
    /\ result' = get_catalyst_symbol([symbol |-> result.val])
    /\ UNCHANGED <<markets, remote, local, assets, phase>>

MarketIds == {<<"A", "B">>, <<"a", "b">>, <<"C", "D">>, <<"e", "f">>}

FetchAsset ==
    /\ call.op = "_fetch_asset"
    /\ result = Pending
    /\ result' = Return(_fetch_asset(call.market_id, FALSE))
    /\ UNCHANGED <<markets, remote, local, assets, phase, call>>

(***************************************************************************)
(* Specifications.                                                         *)
(***************************************************************************)
\* Spec: an adapter from its construction on, with at most one market and a
\* remote catalog that is absent or has one entry.
InitSmall ==
    /\ Init
    /\ Len(markets) <= 1
    /\ ~local.avail
    /\ remote \in {[avail |-> FALSE, items |-> <<>>],
                   [avail |-> TRUE, items |-> <<[key |-> <<"a", "b">>, value |-> EntryFull]>>]}

Next == Construct \/ Invoke \/ GetCandles \/ Tickers \/ GetOrderbook

Spec == InitSmall /\ [][Next]_vars

\* SpecLoad: construction over every market listing and pair of catalogs.
NextLoad == Construct

SpecLoad == Init /\ [][NextLoad]_vars

\* The state of a method called on its own: the catalogs are given, the
\* arguments are in call.
Called(calls) ==
    /\ markets = <<>>
    /\ remote \in Catalogs
    /\ local \in Catalogs
    /\ assets = EmptyTable
    /\ phase = "new"
    /\ call \in calls
    /\ result = Pending

NoCatalogs ==
    /\ ~remote.avail
    /\ ~local.avail

\* SpecResolve: _fetch_asset(market_id) over every pair of catalogs.
InitResolve == Called({[op |-> "_fetch_asset", market_id |-> id] : id \in MarketIds})

NextResolve == FetchAsset

SpecResolve == InitResolve /\ [][NextResolve]_vars

\* SpecTF: get_timeframe(freq) over the strings of FreqChars.
InitTF ==
    /\ Called({[op |-> "get_timeframe", freq |-> f] : f \in Strings(FreqChars, MaxFreqLen)})
    /\ NoCatalogs

NextTF == GetTimeframe

SpecTF == InitTF /\ [][NextTF]_vars

\* SpecSym: get_symbol, then get_catalyst_symbol of what it returned, over
\* the strings of SymChars.
InitSym ==
    /\ Called({[op |-> "get_symbol", symbol |-> s] : s \in Strings(SymChars, MaxSymLen)})
    /\ NoCatalogs

NextSym == GetSymbol \/ GetCatalystSymbol

SpecSym == InitSym /\ [][NextSym]_vars

\* SpecBook: get_orderbook on the adapter of one unlisted market, over every
\* side filter, depth limit and snapshot.
BookMarkets == <<[id |-> <<"e", "f">>, symbol |-> <<"E", "/", "F">>]>>

InitBook ==
    /\ markets = BookMarkets
    /\ remote = [avail |-> FALSE, items |-> <<>>]
    /\ local = [avail |-> FALSE, items |-> <<>>]
    /\ assets = load_assets(BookMarkets).assets
    /\ phase = "ready"
    /\ call \in OrderbookCalls(load_assets(BookMarkets).assets, MaxDepth)
    /\ result = Pending

NextBook == GetOrderbook

SpecBook == InitBook /\ [][NextBook]_vars

(***************************************************************************)
(* Properties.                                                             *)
(***************************************************************************)
\* The catalog, when available, has market_id among its keys, case apart.
InCatalog(catalog, market_id) ==
    /\ catalog.avail
    /\ \E i \in 1..Len(catalog.items) : Lower(catalog.items[i].key) = Lower(market_id)

\* The entries the catalog holds for market_id, case apart.
EntriesFor(catalog, market_id) ==
    {catalog.items[i].value : i \in {j \in 1..Len(catalog.items) :
                                        Lower(catalog.items[j].key) = Lower(market_id)}}

Resolved == call.op = "_fetch_asset" /\ result.kind = "return"

\* C1: _fetch_asset(market_id) returns the remote entry with is_local False
\* when the remote catalog has the id (case apart), otherwise the local entry
\* with is_local True when the local catalog has it, otherwise (None, True).
C1_Resolution ==
    Resolved =>
        LET id == call.market_id
            r == result.val
        IN  IF InCatalog(remote, id)
            THEN /\ Len(r.asset) = 1
                 /\ r.asset[1] \in EntriesFor(remote, id)
                 /\ r.is_local = FALSE
            ELSE IF InCatalog(local, id)
            THEN /\ Len(r.asset) = 1
                 /\ r.asset[1] \in EntriesFor(local, id)
                 /\ r.is_local = TRUE
            ELSE r.asset = None /\ r.is_local = TRUE

\* An id written in another case than the remote catalog's key, resolved
\* remotely.
C1_Witness ==
    /\ Resolved
    /\ InCatalog(remote, call.market_id)
    /\ \A i \in 1..Len(remote.items) : remote.items[i].key # call.market_id
    /\ result.val.is_local = FALSE
    /\ result.val.asset # None

\* C10: a resolution started with is_local False consults at most two
\* catalogs: the remote one first, the local one at most once and only when
\* the remote one was unavailable or lacked the id.
C10_Lookups ==
    Resolved =>
        LET id == call.market_id
            lookups == result.val.lookups
        IN  /\ Len(lookups) \in {1, 2}
            /\ lookups[1] = FALSE
            /\ Len(lookups) = 2 => (lookups[2] = TRUE /\ ~InCatalog(remote, id))
            /\ InCatalog(remote, id) => lookups = <<FALSE>>

\* The remote catalog is there but lacks the id; the local one answers.
C10_Witness ==
    /\ Resolved
    /\ remote.avail
    /\ ~InCatalog(remote, call.market_id)
    /\ InCatalog(local, call.market_id)
    /\ result.val.lookups = <<FALSE, TRUE>>
    /\ result.val.asset # None

\* C2: load_assets completes without raising and leaves one entry per raw
\* market, len(assets) == len(markets), whatever the markets and catalogs.
C2_Total ==
    phase # "new" => (phase = "ready" /\ Cardinality(DOMAIN assets) = Len(markets))

\* The symbol of an unlisted BASE/QUOTE market: lowercased, '/' made '_'.
Synthesized(symbol) == [i \in 1..Len(symbol) |-> IF symbol[i] = "/" THEN "_" ELSE LowerChar(symbol[i])]

IsBaseQuote(symbol) == Cardinality({i \in 1..Len(symbol) : symbol[i] = "/"}) = 1

\* C8: every entry of the asset table has data_source 'catalyst' exactly when
\* its market id is in the remote catalog and 'local' otherwise, and the
\* entry of a market in neither catalog has the symbol synthesized from the
\* market's BASE/QUOTE symbol.
C8_Provenance ==
    phase # "new" =>
        \A id \in DOMAIN assets :
            LET tp == assets[id]
            IN  /\ tp.exchange_symbol = id
                /\ tp.data_source \in {"catalyst", "local"}
                /\ tp.data_source = "catalyst" <=> InCatalog(remote, id)
                /\ (~InCatalog(remote, id) /\ ~InCatalog(local, id)) =>
                       \E i \in 1..Len(markets) :
                          /\ markets[i].id = id
                          /\ IsBaseQuote(markets[i].symbol)
                          /\ tp.symbol = Synthesized(markets[i].symbol)

\* A table with an entry of each provenance: one from the remote catalog and
\* one synthesized.
C8_Witness ==
    /\ phase = "ready"
    /\ \E id \in DOMAIN assets : InCatalog(remote, id) /\ assets[id].data_source = "catalyst"
    /\ \E id \in DOMAIN assets :
          /\ ~InCatalog(remote, id)
          /\ ~InCatalog(local, id)
          /\ assets[id].data_source = "local"
          /\ assets[id].symbol = <<"e", "_", "f">>

\* C9: on a constructed adapter no call changes the asset table.
C9_ReadOnly == [][phase = "ready" => assets' = assets]_vars

\* tickers has returned for an asset of a table that is not empty.
C9_Witness ==
    /\ phase = "ready"
    /\ call.op = "tickers"
    /\ result.kind = "return"
    /\ Len(call.assets) >= 1
    /\ assets # EmptyTable

BookReturned == call.op = "get_orderbook" /\ result.kind = "return"

Min(a, b) == IF a <= b THEN a ELSE b

\* C3: with a depth limit L every side of the result is the first min(L, n)
\* raw entries of that side, in order, as {rate, quantity}; with no limit it
\* is all n of them.
C3_Truncation ==
    BookReturned =>
        \A side \in DOMAIN result.val.sides :
            LET raw == call.order_book[side]
                k == IF call.limit = None THEN Len(raw) ELSE Min(call.limit[1], Len(raw))
            IN  result.val.sides[side] =
                    [i \in 1..k |-> [rate |-> Num("float", raw[i][1].value),
                                     quantity |-> Num("float", raw[i][2].value)]]

\* C4: the result has 'bids' iff the filter is 'bids' or 'all' and 'asks' iff
\* it is 'asks' or 'all', for every depth limit.
C4_Sides ==
    BookReturned =>
        /\ "bids" \in DOMAIN result.val.sides <=> call.order_type \in {"bids", "all"}
        /\ "asks" \in DOMAIN result.val.sides <=> call.order_type \in {"asks", "all"}

\* The grammar of a frequency: an optional positive integer, then one unit
\* letter among m, T, h, d in either case.
GrammarUnits == {"m", "M", "t", "T", "h", "H", "d", "D"}

MatchesGrammar(freq) ==
    /\ Len(freq) >= 1
    /\ freq[Len(freq)] \in GrammarUnits
    /\ \A i \in 1..(Len(freq) - 1) : freq[i] \in {"0", "1", "2", "3", "4", "5", "6", "7", "8", "9"}
    /\ Len(freq) >= 2 => \E i \in 1..(Len(freq) - 1) : freq[i] # "0"

Translated == call.op = "get_timeframe" /\ result # Pending

\* C5: get_timeframe raises InvalidHistoryFrequencyError, and nothing else,
\* for every string that does not match the grammar.
C5_Invalid ==
    (Translated /\ ~MatchesGrammar(call.freq)) => result = Raise("InvalidHistoryFrequencyError")

\* The unit of the grammar's unit letter: T is a minute.
GrammarUnit(c) == IF c \in {"m", "M", "t", "T"} THEN "m" ELSE IF c \in {"h", "H"} THEN "h" ELSE "d"

\* C6: for every string of the grammar get_timeframe returns the magnitude
\* (1 when omitted) followed by m, h or d; T in either case is a minute.
C6_Translate ==
    (Translated /\ MatchesGrammar(call.freq)) =>
        LET n == Len(call.freq)
            magnitude == IF n = 1 THEN 1 ELSE ParseInt(SubSeq(call.freq, 1, n - 1))
        IN  result = Return(FormatInt(magnitude) \o <<GrammarUnit(call.freq[n])>>)

\* A well-formed internal symbol: lowercase base and quote around one '_'.
WellFormed(s) ==
    /\ Cardinality({i \in 1..Len(s) : s[i] = "_"}) = 1
    /\ \A i \in 1..Len(s) : s[i] = "_" \/ IsIn(LowerLetters, s[i]) \/ IsDigit(s[i])

\* C7: for a well-formed internal symbol s, get_symbol returns and
\* get_catalyst_symbol of the market with that symbol returns s.
C7_RoundTrip ==
    /\ (call.op = "get_symbol" /\ result # Pending /\ WellFormed(call.symbol)) =>
           result.kind = "return"
    /\ (call.op = "get_catalyst_symbol" /\ WellFormed(call.internal)) =>
           result = Return(call.internal)

\* The round trip of a symbol with a base and a quote.
C7_Witness ==
    /\ call.op = "get_catalyst_symbol"
    /\ WellFormed(call.internal)
    /\ call.internal[1] # "_"
    /\ call.internal[Len(call.internal)] # "_"
    /\ call.symbol # call.internal
    /\ result = Return(call.internal)

====
